---- MODULE Spec2Model ----
(***************************************************************************)
(* Model of sub_renamer (src/main.rs): a command line tool that matches    *)
(* subtitle files to video files by an episode identifier extracted with   *)
(* regular expressions and renames each subtitle after its video.          *)
(*                                                                         *)
(* Text (file names, extension lists, identifiers) is a sequence of        *)
(* one-character strings, so that splitting, trimming, lowercasing,        *)
(* Path::extension, Path::file_stem and regex captures are computed        *)
(* character by character.  Option<T> is a sequence of length 0 (None) or  *)
(* 1 (Some).  A path is a record [dir, name]; the disk maps each existing  *)
(* path to the identity of the file stored there.                          *)
(***************************************************************************)
EXTENDS Integers, Sequences, FiniteSets, TLC

VARIABLES
    args,           \* struct Args, as parsed from the command line
    root_exists,    \* whether args.directory exists on the filesystem
    disk,           \* the filesystem: path -> identity of the file
    disk0,          \* history: the disk when the current invocation started
    pc,             \* position of the process
    renamer,        \* Option<SubtitleRenamer>: the compiled configuration
    subtitles,      \* Vec<FileInfo> built by categorize_files
    videos,         \* Vec<FileInfo> built by categorize_files
    operations,     \* Vec<RenameOperation> built by plan_renames
    idx,            \* number of operations the loop of execute_renames has consumed
    success_count,  \* execute_renames: success_count
    error_count,    \* execute_renames: error_count
    outcome,        \* history: what the loop did with each consumed operation
    renames,        \* history: the fs::rename calls issued, in order
    out,            \* lines written to stdout / stderr by this invocation
    status,         \* how the process ended
    prev,           \* history: Option<results of the previous invocation>
    ext_str,        \* parse_extensions: the argument
    extensions      \* parse_extensions: Option<the returned Vec<String>>

vars == <<args, root_exists, disk, disk0, pc, renamer, subtitles, videos,
          operations, idx, success_count, error_count, outcome, renames, out,
          status, prev, ext_str, extensions>>

(***************************************************************************)
(* Bounds                                                                  *)
(***************************************************************************)
MaxFiles == 3
MaxExtLen == 4

(***************************************************************************)
(* Text                                                                    *)
(***************************************************************************)
None == <<>>
Some(x) == <<x>>

IsDigit(c) == c \in {"1", "2"}
IsWhitespace(c) == c = " "
IsUpper(c) == c \in {"A", "E", "M", "S"}

\* char::to_lowercase
ToLowerChar(c) ==
    CASE c = "A" -> "a"
      [] c = "E" -> "e"
      [] c = "M" -> "m"
      [] c = "S" -> "s"
      [] OTHER -> c

\* str::to_lowercase
to_lowercase(s) == [i \in 1..Len(s) |-> ToLowerChar(s[i])]

RECURSIVE trim_start(_)
trim_start(s) ==
    IF s # <<>> /\ IsWhitespace(Head(s)) THEN trim_start(Tail(s)) ELSE s

RECURSIVE trim_end(_)
trim_end(s) ==
    IF s # <<>> /\ IsWhitespace(s[Len(s)])
    THEN trim_end(SubSeq(s, 1, Len(s) - 1))
    ELSE s

\* str::trim
trim(s) == trim_end(trim_start(s))

\* str::split(','): the pieces between commas, empty pieces included
RECURSIVE split_comma(_)
split_comma(s) ==
    IF \E i \in 1..Len(s) : s[i] = ","
    THEN LET i == CHOOSE k \in 1..Len(s) :
                    s[k] = "," /\ \A j \in 1..(k - 1) : s[j] # ","
         IN <<SubSeq(s, 1, i - 1)>> \o split_comma(SubSeq(s, i + 1, Len(s)))
    ELSE <<s>>

NonEmpty(s) == s # <<>>

\* parse_extensions without the trim of each token
parse_extensions_no_trim(s) ==
    SelectSeq([i \in 1..Len(split_comma(s)) |-> to_lowercase(split_comma(s)[i])],
              NonEmpty)

\* SubtitleRenamer::parse_extensions
parse_extensions(s) ==
    SelectSeq([i \in 1..Len(split_comma(s)) |->
                   to_lowercase(trim(split_comma(s)[i]))],
              NonEmpty)

\* Vec::contains
Contains(v, x) == \E i \in 1..Len(v) : v[i] = x

(***************************************************************************)
(* Paths                                                                   *)
(***************************************************************************)
Root == "r"
SubDir == "r/x"
Dirs == {Root, SubDir}

Path(d, n) == [dir |-> d, name |-> n]

\* Path::parent
parent(p) == p.dir
\* Path::join
join(d, n) == Path(d, n)
\* Path::file_name
file_name(p) == p.name

\* position of the final '.' of a file name, 0 when it has none
LastDot(n) ==
    IF \E i \in 1..Len(n) : n[i] = "."
    THEN CHOOSE i \in 1..Len(n) :
            n[i] = "." /\ \A j \in (i + 1)..Len(n) : n[j] # "."
    ELSE 0

\* Path::extension: None without an embedded '.', None for a name that
\* starts with its only '.', else the portion after the final '.'
extension(p) ==
    LET n == file_name(p) IN
    IF LastDot(n) <= 1 THEN None ELSE Some(SubSeq(n, LastDot(n) + 1, Len(n)))

\* Path::file_stem: the whole name in the two None cases of extension, else
\* the portion before the final '.'
file_stem(p) ==
    LET n == file_name(p) IN
    IF LastDot(n) <= 1 THEN n ELSE SubSeq(n, 1, LastDot(n) - 1)

(***************************************************************************)
(* Regular expressions: the patterns a caller may pass, each with the      *)
(* leftmost-first match the regex crate computes for it.                   *)
(***************************************************************************)
ReDigit == "(\\d)"          \* group 1: the first digit of the name
ReEDigit == "E(\\d)"        \* group 1: the digit of the first 'E<digit>'
ReDigits == "(\\d*)"        \* matches at offset 0, group 1 possibly empty
ReAlt == "E|(\\d)"          \* group 1 takes no part when 'E' comes first
ReBad == "("                \* does not compile

ValidPatterns == {ReDigit, ReEDigit, ReDigits, ReAlt}

\* Regex::new: Ok (Some) or Err (None)
Regex_new(text) == IF text \in ValidPatterns THEN Some(text) ELSE None

First(S) == CHOOSE i \in S : \A j \in S : i <= j

RECURSIVE DigitPrefix(_)
DigitPrefix(s) ==
    IF s # <<>> /\ IsDigit(Head(s)) THEN <<Head(s)>> \o DigitPrefix(Tail(s)) ELSE <<>>

\* Regex::captures(text) followed by Captures::get(1) and Match::as_str:
\* None when the pattern does not match or group 1 took no part in the
\* match, else Some(text of group 1)
CaptureGroup1(re, s) ==
    LET digitAt == {i \in 1..Len(s) : IsDigit(s[i])}
        eDigitAt == {i \in 1..(Len(s) - 1) : s[i] = "E" /\ IsDigit(s[i + 1])}
        altAt == {i \in 1..Len(s) : s[i] = "E" \/ IsDigit(s[i])}
    IN CASE re = ReDigit ->
              IF digitAt = {} THEN None ELSE Some(<<s[First(digitAt)]>>)
         [] re = ReEDigit ->
              IF eDigitAt = {} THEN None ELSE Some(<<s[First(eDigitAt) + 1]>>)
         [] re = ReDigits -> Some(DigitPrefix(s))
         [] re = ReAlt ->
              IF altAt = {} \/ s[First(altAt)] = "E" THEN None
              ELSE Some(<<s[First(altAt)]>>)
         [] OTHER -> None

(***************************************************************************)
(* Inputs: command lines and directory contents                            *)
(***************************************************************************)
\* the two shapes of (--srt-ext, --video-ext): the defaults' shape, and
\* overlapping lists with uppercase, blanks and an empty token
PlainExt == << <<"s">>, <<"m">> >>
MixedExt == << <<" ", "S", ",">>, <<"M", ",", "s">> >>

\* (--srt-regex, --mkv-regex, (--srt-ext, --video-ext))
PatternArgs ==
    { <<None, None, PlainExt>>,
      <<Some(ReDigit), None, PlainExt>>,
      <<None, Some(ReDigits), PlainExt>>,
      <<Some(ReDigit), Some(ReEDigit), PlainExt>>,
      <<Some(ReAlt), Some(ReDigit), MixedExt>>,
      <<Some(ReBad), Some(ReDigit), PlainExt>>,
      <<Some(ReDigit), Some(ReBad), MixedExt>>,
      <<None, Some(ReBad), PlainExt>> }

\* (--recursive, --dry-run, --quiet, --verbose)
FlagArgs ==
    { <<FALSE, FALSE, FALSE, FALSE>>,
      <<TRUE, FALSE, FALSE, FALSE>>,
      <<FALSE, TRUE, FALSE, FALSE>>,
      <<FALSE, FALSE, TRUE, FALSE>>,
      <<TRUE, TRUE, TRUE, FALSE>>,
      <<TRUE, FALSE, FALSE, TRUE>> }

ArgsSet ==
    { [srt_regex |-> pa[1], mkv_regex |-> pa[2],
       srt_ext |-> pa[3][1], video_ext |-> pa[3][2],
       recursive |-> fl[1], dry_run |-> fl[2], quiet |-> fl[3], verbose |-> fl[4]] :
      pa \in PatternArgs, fl \in FlagArgs }

\* the files a directory tree may hold
CandidatePaths ==
    { Path(Root, <<"a", "1", ".", "s">>),
      Path(Root, <<"b", "1", ".", "S">>),
      Path(Root, <<"E", "1", ".", "s">>),
      Path(Root, <<"E", "1", ".", "m">>),
      Path(Root, <<"2", "E", "1", ".", "m">>),
      Path(Root, <<"E", "2", ".", "m">>),
      Path(Root, <<".", "s">>),
      Path(SubDir, <<"a", "1", ".", "s">>),
      Path(SubDir, <<"E", "1", ".", "M">>) }

\* a disk holding the files of S, each with its own identity
DiskOf(S) == [p \in S |-> p]

Exists(d, p) == p \in DOMAIN d

\* fs::rename(from, to) when it succeeds: the file moves, replacing
\* whatever was stored at the destination
Renamed(d, from, to) ==
    [p \in (DOMAIN d \ {from}) \cup {to} |-> IF p = to THEN d[from] ELSE d[p]]

\* the identities of the files stored on a disk
Contents(d) == {d[p] : p \in DOMAIN d}

(***************************************************************************)
(* Output lines                                                            *)
(***************************************************************************)
Line(stream, kind, a, b) == [stream |-> stream, kind |-> kind, a |-> a, b |-> b]

\* println! / eprintln! guarded by `if cond`
PrintIf(cond, log, line) == IF cond THEN Append(log, line) ELSE log

(***************************************************************************)
(* SubtitleRenamer                                                         *)
(***************************************************************************)
Ok(v) == [ok |-> TRUE, val |-> v]
Err(e) == [ok |-> FALSE, err |-> e]

Or(a, b) == IF a # None THEN a ELSE b

\* SubtitleRenamer::new without the check of the video pattern
SubtitleRenamer_new_unchecked_video(a, dirExists) ==
    IF a.srt_regex = None /\ a.mkv_regex = None THEN Err("MissingPattern")
    ELSE
    LET srt_re_str == Or(a.srt_regex, a.mkv_regex)[1]
        mkv_re_str == Or(a.mkv_regex, a.srt_regex)[1]
    IN IF Regex_new(srt_re_str) = None THEN Err("InvalidSubtitlePattern")
       ELSE IF ~dirExists THEN Err("DirectoryNotFound")
       ELSE Ok([srt_regex |-> srt_re_str,
                mkv_regex |-> mkv_re_str,
                srt_extensions |-> parse_extensions(a.srt_ext),
                video_extensions |-> parse_extensions(a.video_ext)])

\* SubtitleRenamer::new
SubtitleRenamer_new(a, dirExists) ==
    IF a.srt_regex = None /\ a.mkv_regex = None THEN Err("MissingPattern")
    ELSE
    LET srt_re_str == Or(a.srt_regex, a.mkv_regex)[1]
        mkv_re_str == Or(a.mkv_regex, a.srt_regex)[1]
    IN IF Regex_new(srt_re_str) = None THEN Err("InvalidSubtitlePattern")
       ELSE IF Regex_new(mkv_re_str) = None THEN Err("InvalidVideoPattern")
       ELSE IF ~dirExists THEN Err("DirectoryNotFound")
       ELSE Ok([srt_regex |-> Regex_new(srt_re_str)[1],
                mkv_regex |-> Regex_new(mkv_re_str)[1],
                srt_extensions |-> parse_extensions(a.srt_ext),
                video_extensions |-> parse_extensions(a.video_ext)])

\* SubtitleRenamer::get_files when read_dir / WalkDir succeed: the set of
\* regular files listed (their order is the directory's, see Orders)
get_files(a, d) ==
    IF a.recursive THEN DOMAIN d ELSE {p \in DOMAIN d : p.dir = Root}

\* the orders in which a directory listing may return the files of S
Orders(S) ==
    {f \in [1..Cardinality(S) -> S] : \A i, j \in 1..Cardinality(S) : f[i] = f[j] => i = j}

\* SubtitleRenamer::extract_episode_id
extract_episode_id(r, path, is_subtitle) ==
    LET regex == IF is_subtitle THEN r.srt_regex ELSE r.mkv_regex
    IN CaptureGroup1(regex, file_name(path))

FileInfo(path, episode_id, ext) ==
    [path |-> path, episode_id |-> episode_id, extension |-> ext]

\* categorize_files whose video branch is not an `else` of the subtitle one
RECURSIVE categorize_no_priority(_, _, _, _)
categorize_no_priority(r, files, subs, vids) ==
    IF files = <<>> THEN [subtitles |-> subs, videos |-> vids]
    ELSE
    LET path == Head(files)
        ext == IF extension(path) = None THEN None
               ELSE Some(to_lowercase(extension(path)[1]))
        sid == extract_episode_id(r, path, TRUE)
        vid == extract_episode_id(r, path, FALSE)
    IN IF ext # None /\ Contains(r.srt_extensions, ext[1]) /\ sid # None
       THEN categorize_no_priority(r, Tail(files),
                Append(subs, FileInfo(path, sid[1], ext[1])), vids)
       ELSE IF ext # None /\ Contains(r.video_extensions, ext[1]) /\ vid # None
       THEN categorize_no_priority(r, Tail(files), subs,
                Append(vids, FileInfo(path, vid[1], ext[1])))
       ELSE categorize_no_priority(r, Tail(files), subs, vids)

\* the loop of SubtitleRenamer::categorize_files over the listed files
RECURSIVE categorize(_, _, _, _)
categorize(r, files, subs, vids) ==
    IF files = <<>> THEN [subtitles |-> subs, videos |-> vids]
    ELSE
    LET path == Head(files)
        ext == IF extension(path) = None THEN None
               ELSE Some(to_lowercase(extension(path)[1]))
        sid == extract_episode_id(r, path, TRUE)
        vid == extract_episode_id(r, path, FALSE)
    IN IF ext = None THEN categorize(r, Tail(files), subs, vids)
       ELSE IF Contains(r.srt_extensions, ext[1])
       THEN IF sid # None
            THEN categorize(r, Tail(files),
                     Append(subs, FileInfo(path, sid[1], ext[1])), vids)
            ELSE categorize(r, Tail(files), subs, vids)
       ELSE IF Contains(r.video_extensions, ext[1])
       THEN IF vid # None
            THEN categorize(r, Tail(files), subs,
                     Append(vids, FileInfo(path, vid[1], ext[1])))
            ELSE categorize(r, Tail(files), subs, vids)
       ELSE categorize(r, Tail(files), subs, vids)

RenameOperation(from, to, episode_id) ==
    [from |-> from, to |-> to, episode_id |-> episode_id]

\* HashMap::insert
Insert(m, k, v) == [x \in DOMAIN m \cup {k} |-> IF x = k THEN v ELSE m[x]]

\* the index in which the first video of an identifier stays
RECURSIVE video_map_first_wins(_)
video_map_first_wins(vids) ==
    IF vids = <<>> THEN <<>>
    ELSE LET m == video_map_first_wins(SubSeq(vids, 1, Len(vids) - 1))
             v == vids[Len(vids)]
         IN IF v.episode_id \in DOMAIN m THEN m ELSE Insert(m, v.episode_id, v)

\* plan_renames: video_map, collected from (episode_id, video) pairs in
\* input order, each insert replacing the entry of an equal key
RECURSIVE video_map(_)
video_map(vids) ==
    IF vids = <<>> THEN <<>>
    ELSE LET v == vids[Len(vids)]
         IN Insert(video_map(SubSeq(vids, 1, Len(vids) - 1)), v.episode_id, v)

\* plan_renames: new_path, the subtitle's directory joined with
\* "<video stem>.<subtitle extension>"
new_path(subtitle, video) ==
    LET video_stem == file_stem(video.path)
        new_name == video_stem \o <<".">> \o subtitle.extension
    IN join(parent(subtitle.path), new_name)

\* plan_renames that pushes an operation for every matched subtitle
no_self_check(from, to) == TRUE

\* plan_renames: `if subtitle.path != new_path`
is_rename(from, to) == from # to

\* SubtitleRenamer::plan_renames: the operations, and the lines printed
RECURSIVE plan_renames(_, _, _)
plan_renames(subs, vids, quiet) ==
    IF subs = <<>> THEN [operations |-> <<>>, out |-> <<>>]
    ELSE
    LET rest == plan_renames(SubSeq(subs, 1, Len(subs) - 1), vids, quiet)
        subtitle == subs[Len(subs)]
        vmap == video_map(vids)
    IN IF subtitle.episode_id \in DOMAIN vmap
       THEN LET to == new_path(subtitle, vmap[subtitle.episode_id])
            IN IF is_rename(subtitle.path, to)
               THEN [rest EXCEPT !.operations =
                        Append(@, RenameOperation(subtitle.path, to, subtitle.episode_id))]
               ELSE rest
       ELSE [rest EXCEPT !.out =
                PrintIf(~quiet, @, Line("stdout", "no_video", subtitle.episode_id,
                                        file_name(subtitle.path)))]

\* execute_renames that never sees a destination as taken
conflict_never(d, op) == FALSE

\* execute_renames: `if op.to.exists() && op.from != op.to`
conflict(d, op) == Exists(d, op.to) /\ op.from # op.to

(***************************************************************************)
(* The process                                                             *)
(***************************************************************************)
NoRun ==
    /\ renamer = None
    /\ subtitles = <<>>
    /\ videos = <<>>
    /\ operations = <<>>
    /\ idx = 0
    /\ success_count = 0
    /\ error_count = 0
    /\ outcome = <<>>
    /\ renames = <<>>
    /\ out = <<>>
    /\ status = "running"

Init ==
    /\ args \in ArgsSet
    /\ root_exists \in BOOLEAN
    /\ \E S \in SUBSET CandidatePaths :
          /\ Cardinality(S) <= MaxFiles
          /\ root_exists \/ S = {}
          /\ disk = DiskOf(S)
    /\ disk0 = disk
    /\ pc = "main"
    /\ NoRun
    /\ prev = None
    /\ ext_str = <<>>
    /\ extensions = None

\* main: neither pattern given, usage on stderr and exit(1)
MainUsage ==
    /\ pc = "main"
    /\ args.srt_regex = None /\ args.mkv_regex = None
    /\ out' = Append(out, Line("stderr", "usage", <<>>, <<>>))
    /\ status' = "exit1"
    /\ pc' = "exited"
    /\ UNCHANGED <<args, root_exists, disk, disk0, renamer, subtitles, videos,
                   operations, idx, success_count, error_count, outcome, renames,
                   prev, ext_str, extensions>>

\* main: SubtitleRenamer::new(args)? returns the error
MainNewErr ==
    /\ pc = "main"
    /\ ~(args.srt_regex = None /\ args.mkv_regex = None)
    /\ ~SubtitleRenamer_new(args, root_exists).ok
    /\ out' = Append(out, Line("stderr", "error",
                              SubtitleRenamer_new(args, root_exists).err, <<>>))
    /\ status' = "error"
    /\ pc' = "exited"
    /\ UNCHANGED <<args, root_exists, disk, disk0, renamer, subtitles, videos,
                   operations, idx, success_count, error_count, outcome, renames,
                   prev, ext_str, extensions>>

\* main: SubtitleRenamer::new(args)? returns the renamer, run() starts
MainNewOk ==
    /\ pc = "main"
    /\ ~(args.srt_regex = None /\ args.mkv_regex = None)
    /\ SubtitleRenamer_new(args, root_exists).ok
    /\ renamer' = Some(SubtitleRenamer_new(args, root_exists).val)
    /\ pc' = "categorize"
    /\ UNCHANGED <<args, root_exists, disk, disk0, subtitles, videos, operations,
                   idx, success_count, error_count, outcome, renames, out, status,
                   prev, ext_str, extensions>>

\* run: categorize_files()? fails because read_dir fails
CategorizeFilesErr ==
    /\ pc = "categorize"
    /\ ~args.recursive
    /\ out' = Append(out, Line("stderr", "error", "ReadDir", <<>>))
    /\ status' = "error"
    /\ pc' = "exited"
    /\ UNCHANGED <<args, root_exists, disk, disk0, renamer, subtitles, videos,
                   operations, idx, success_count, error_count, outcome, renames,
                   prev, ext_str, extensions>>

\* run: categorize_files() lists the directory and classifies each file
CategorizeFiles ==
    /\ pc = "categorize"
    /\ \E files \in Orders(get_files(args, disk)) :
          LET c == categorize(renamer[1], files, <<>>, <<>>) IN
          /\ subtitles' = c.subtitles
          /\ videos' = c.videos
          /\ out' = PrintIf(args.verbose, out,
                            Line("stdout", "found", Len(c.subtitles), Len(c.videos)))
    /\ pc' = "plan"
    /\ UNCHANGED <<args, root_exists, disk, disk0, renamer, operations, idx,
                   success_count, error_count, outcome, renames, status, prev,
                   ext_str, extensions>>

\* run: plan_renames(subtitles, videos)
PlanRenames ==
    /\ pc = "plan"
    /\ LET p == plan_renames(subtitles, videos, args.quiet) IN
          /\ operations' = p.operations
          /\ out' = out \o p.out
    /\ pc' = "execute"
    /\ UNCHANGED <<args, root_exists, disk, disk0, renamer, subtitles, videos, idx,
                   success_count, error_count, outcome, renames, status, prev,
                   ext_str, extensions>>

\* execute_renames: nothing to rename
ExecuteEmpty ==
    /\ pc = "execute"
    /\ operations = <<>>
    /\ out' = PrintIf(~args.quiet, out, Line("stdout", "nothing", <<>>, <<>>))
    /\ status' = "ok"
    /\ pc' = "exited"
    /\ UNCHANGED <<args, root_exists, disk, disk0, renamer, subtitles, videos,
                   operations, idx, success_count, error_count, outcome, renames,
                   prev, ext_str, extensions>>

\* the operation the loop of execute_renames takes next
InLoop == pc = "execute" /\ idx < Len(operations)
op == operations[idx + 1]

\* execute_renames: the destination exists, `continue`
ExecuteConflict ==
    /\ InLoop
    /\ conflict(disk, op)
    /\ out' = PrintIf(~args.quiet, out,
                      Line("stdout", "exists", file_name(op.to), op.episode_id))
    /\ idx' = idx + 1
    /\ outcome' = Append(outcome, "conflict")
    /\ UNCHANGED <<args, root_exists, disk, disk0, pc, renamer, subtitles, videos,
                   operations, success_count, error_count, renames, status, prev, ext_str, extensions>>

\* a dry run that calls fs::rename all the same
ExecuteDryRunRenames ==
    /\ InLoop
    /\ ~conflict(disk, op)
    /\ args.dry_run
    /\ out' = Append(out, Line("stdout", "dry_run", file_name(op.from), file_name(op.to)))
    /\ disk' = Renamed(disk, op.from, op.to)
    /\ success_count' = success_count + 1
    /\ idx' = idx + 1
    /\ outcome' = Append(outcome, "dry_run")
    /\ UNCHANGED <<args, root_exists, disk0, pc, renamer, subtitles, videos,
                   operations, error_count, renames, status, prev, ext_str,
                   extensions>>

\* execute_renames: dry run, the rename is printed and counted
ExecuteDryRun ==
    /\ InLoop
    /\ ~conflict(disk, op)
    /\ args.dry_run
    /\ out' = Append(out, Line("stdout", "dry_run", file_name(op.from), file_name(op.to)))
    /\ success_count' = success_count + 1
    /\ idx' = idx + 1
    /\ outcome' = Append(outcome, "dry_run")
    /\ UNCHANGED <<args, root_exists, disk, disk0, pc, renamer, subtitles, videos,
                   operations, error_count, renames, status, prev, ext_str,
                   extensions>>

RenameCall(from, to, existed, ok) ==
    [from |-> from, to |-> to, existed |-> existed, ok |-> ok]

\* execute_renames: fs::rename returns Ok
ExecuteRenameOk ==
    /\ InLoop
    /\ ~conflict(disk, op)
    /\ ~args.dry_run
    /\ disk' = Renamed(disk, op.from, op.to)
    /\ renames' = Append(renames, RenameCall(op.from, op.to, Exists(disk, op.to), TRUE))
    /\ out' = PrintIf(~args.quiet, out,
                      Line("stdout", "renamed", file_name(op.from), file_name(op.to)))
    /\ success_count' = success_count + 1
    /\ idx' = idx + 1
    /\ outcome' = Append(outcome, "renamed")
    /\ UNCHANGED <<args, root_exists, disk0, pc, renamer, subtitles, videos,
                   operations, error_count, status, prev, ext_str, extensions>>

\* a failed rename that ends the loop
ExecuteRenameErrStops ==
    /\ InLoop
    /\ ~conflict(disk, op)
    /\ ~args.dry_run
    /\ renames' = Append(renames, RenameCall(op.from, op.to, Exists(disk, op.to), FALSE))
    /\ out' = Append(out, Line("stderr", "rename_error", file_name(op.from), <<>>))
    /\ error_count' = error_count + 1
    /\ idx' = Len(operations)
    /\ outcome' = Append(outcome, "failed")
    /\ UNCHANGED <<args, root_exists, disk, disk0, pc, renamer, subtitles, videos,
                   operations, success_count, status, prev, ext_str, extensions>>

\* execute_renames: fs::rename returns Err (permissions, cross-device, ...)
ExecuteRenameErr ==
    /\ InLoop
    /\ ~conflict(disk, op)
    /\ ~args.dry_run
    /\ renames' = Append(renames, RenameCall(op.from, op.to, Exists(disk, op.to), FALSE))
    /\ out' = Append(out, Line("stderr", "rename_error", file_name(op.from), <<>>))
    /\ error_count' = error_count + 1
    /\ idx' = idx + 1
    /\ outcome' = Append(outcome, "failed")
    /\ UNCHANGED <<args, root_exists, disk, disk0, pc, renamer, subtitles, videos,
                   operations, success_count, status, prev, ext_str, extensions>>

\* execute_renames: the loop is over, summary and Ok(())
ExecuteSummary ==
    /\ pc = "execute"
    /\ operations # <<>>
    /\ idx = Len(operations)
    /\ out' = PrintIf(~args.quiet, out,
                      Line("stdout", "summary",
                           <<success_count, error_count>>, args.dry_run))
    /\ status' = "ok"
    /\ pc' = "exited"
    /\ UNCHANGED <<args, root_exists, disk, disk0, renamer, subtitles, videos,
                   operations, idx, success_count, error_count, outcome, renames,
                   prev, ext_str, extensions>>

\* the tool is invoked a second time on the directory as the first invocation
\* left it, with the same command line less --dry-run
Reinvoke ==
    /\ pc = "exited"
    /\ status = "ok"
    /\ prev = None
    /\ prev' = Some([dry_run |-> args.dry_run, videos |-> videos,
                     operations |-> operations, outcome |-> outcome,
                     success_count |-> success_count])
    /\ args' = [args EXCEPT !.dry_run = FALSE]
    /\ disk0' = disk
    /\ pc' = "main"
    /\ renamer' = None
    /\ subtitles' = <<>>
    /\ videos' = <<>>
    /\ operations' = <<>>
    /\ idx' = 0
    /\ success_count' = 0
    /\ error_count' = 0
    /\ outcome' = <<>>
    /\ renames' = <<>>
    /\ out' = <<>>
    /\ status' = "running"
    /\ UNCHANGED <<root_exists, disk, ext_str, extensions>>

Next ==
    \/ MainUsage
    \/ MainNewErr
    \/ MainNewOk
    \/ CategorizeFilesErr
    \/ CategorizeFiles
    \/ PlanRenames
    \/ ExecuteEmpty
    \/ ExecuteConflict
    \/ ExecuteDryRun
    \/ ExecuteRenameOk
    \/ ExecuteRenameErr
    \/ ExecuteSummary
    \/ Reinvoke

Spec == Init /\ [][Next]_vars

(***************************************************************************)
(* parse_extensions on its own                                             *)
(***************************************************************************)
ExtChars == {"a", "A", " ", ","}

RECURSIVE Strings(_)
Strings(n) ==
    IF n = 0 THEN {<<>>}
    ELSE Strings(n - 1) \cup
         {Append(s, c) : s \in {t \in Strings(n - 1) : Len(t) = n - 1}, c \in ExtChars}

InitParse ==
    /\ args = CHOOSE a \in ArgsSet : TRUE
    /\ root_exists = TRUE
    /\ disk = DiskOf({})
    /\ disk0 = disk
    /\ pc = "parse"
    /\ NoRun
    /\ prev = None
    /\ ext_str \in Strings(MaxExtLen)
    /\ extensions = None

ParseExtensions ==
    /\ pc = "parse"
    /\ extensions' = Some(parse_extensions(ext_str))
    /\ pc' = "parsed"
    /\ UNCHANGED <<args, root_exists, disk, disk0, renamer, subtitles, videos,
                   operations, idx, success_count, error_count, outcome, renames,
                   out, status, prev, ext_str>>

NextParse == ParseExtensions

SpecParse == InitParse /\ [][NextParse]_vars

(***************************************************************************)
(* Properties                                                              *)
(***************************************************************************)
\* categorize_files / plan_renames has just returned
Categorized == pc = "plan"
JustPlanned == pc = "execute" /\ idx = 0
\* the current invocation has planned its renames
Planned == pc = "execute" \/ (pc = "exited" /\ status = "ok")

\* position of index i among the indices of K, counted from 1
Rank(K, i) == Cardinality({j \in K : j <= i})

\* ---- C9 ---------------------------------------------------------------
\* the comma-separated segments of s, by the positions of its commas
Cuts(s) == {0, Len(s) + 1} \cup {i \in 1..Len(s) : s[i] = ","}
Segment(s, k) ==
    LET a == CHOOSE c \in Cuts(s) : Rank(Cuts(s), c) = k
        b == CHOOSE c \in Cuts(s) : Rank(Cuts(s), c) = k + 1
    IN SubSeq(s, a + 1, b - 1)
\* a segment without its surrounding blanks, in lowercase
Token(seg) ==
    LET ink == {i \in 1..Len(seg) : seg[i] # " "}
    IN IF ink = {} THEN <<>>
       ELSE LET lo == CHOOSE i \in ink : \A j \in ink : i <= j
                hi == CHOOSE i \in ink : \A j \in ink : j <= i
            IN [i \in 1..(hi - lo + 1) |->
                   IF seg[lo + i - 1] = "A" THEN "a" ELSE seg[lo + i - 1]]

\* C9: parse_extensions returns, in input order, the trimmed lowercased
\* comma-separated tokens of its argument that are not empty; no returned
\* token is empty, starts or ends with a blank or holds an uppercase letter,
\* and the empty string yields the empty list.
C9_ParseExtensions ==
    extensions # None =>
        LET res == extensions[1]
            n == Cardinality(Cuts(ext_str)) - 1
            keep == {k \in 1..n : Token(Segment(ext_str, k)) # <<>>}
        IN /\ Len(res) = Cardinality(keep)
           /\ \A k \in keep : res[Rank(keep, k)] = Token(Segment(ext_str, k))
           /\ \A i \in 1..Len(res) :
                 /\ res[i] # <<>>
                 /\ res[i][1] # " " /\ res[i][Len(res[i])] # " "
                 /\ \A j \in 1..Len(res[i]) : ~IsUpper(res[i][j])
           /\ (ext_str = <<>> => res = <<>>)

\* "a, A" parsed to ["a", "a"]
C9_Witness ==
    /\ ext_str = <<"a", ",", " ", "A">>
    /\ extensions = Some(<< <<"a">>, <<"a">> >>)

\* ---- C1 ---------------------------------------------------------------
\* index of the last video, in input order, with the identifier id
LastVideo(id) ==
    CHOOSE i \in 1..Len(videos) :
        /\ videos[i].episode_id = id
        /\ \A j \in (i + 1)..Len(videos) : videos[j].episode_id # id
HasVideo(id) == \E i \in 1..Len(videos) : videos[i].episode_id = id
\* the destination the contract gives subtitle i
Destination(i) ==
    Path(subtitles[i].path.dir,
         file_stem(videos[LastVideo(subtitles[i].episode_id)].path)
             \o <<".">> \o to_lowercase(extension(subtitles[i].path)[1]))
\* the subtitles that must be renamed
ToRename ==
    {i \in 1..Len(subtitles) :
        HasVideo(subtitles[i].episode_id) /\ Destination(i) # subtitles[i].path}

\* C1: plan_renames returns, in subtitle input order, exactly one operation
\* for each classified subtitle that shares its identifier with a video and
\* whose destination (own directory, stem of the last video with that
\* identifier, own lowercase extension) differs from its path, and nothing
\* for the other subtitles.
C1_PlanRenames ==
    JustPlanned =>
        /\ Len(operations) = Cardinality(ToRename)
        /\ \A i \in ToRename :
              operations[Rank(ToRename, i)] =
                  RenameOperation(subtitles[i].path, Destination(i),
                                  subtitles[i].episode_id)

\* two videos with different stems share an identifier and a subtitle in
\* another directory, with an uppercase extension on disk or not, is planned
\* onto the later one
C1_Witness ==
    /\ JustPlanned
    /\ \E i, j \in 1..Len(videos) :
          /\ i < j
          /\ videos[i].episode_id = videos[j].episode_id
          /\ file_stem(videos[i].path) # file_stem(videos[j].path)
          /\ \E k \in 1..Len(operations) :
                /\ operations[k].episode_id = videos[j].episode_id
                /\ operations[k].episode_id # <<>>
                /\ file_stem(operations[k].to) = file_stem(videos[j].path)
                /\ operations[k].to.dir # videos[j].path.dir

\* ---- C2 ---------------------------------------------------------------
\* C2: in a run that is not a dry run, a step of the loop that finds the
\* destination of its operation on disk calls no rename, changes no count,
\* leaves the disk as it is, source and destination included, and moves on
\* to the next operation; and no rename the run has issued had a
\* destination that existed when it was called.
C2_ConflictSkipped ==
    [][ /\ (InLoop /\ ~args.dry_run /\ Exists(disk, op.to)) =>
              /\ renames' = renames
              /\ success_count' = success_count
              /\ error_count' = error_count
              /\ disk' = disk
              /\ Exists(disk', op.from) /\ Exists(disk', op.to)
              /\ pc' = "execute" /\ idx' = idx + 1
        /\ \A i \in 1..Len(renames') : ~renames'[i].existed
        /\ Contents(disk') = Contents(disk) ]_vars

\* an operation was skipped because an earlier rename of the same run had
\* created its destination, and both files are on disk
C2_Witness ==
    /\ ~args.dry_run
    /\ \E i \in 1..Len(outcome) :
          /\ outcome[i] = "conflict"
          /\ ~Exists(disk0, operations[i].to)
          /\ Exists(disk, operations[i].to)
          /\ Exists(disk, operations[i].from)
          /\ \E j \in 1..(i - 1) :
                outcome[j] = "renamed" /\ operations[j].to = operations[i].to

\* ---- C3 ---------------------------------------------------------------
DryRunLine(o) == Line("stdout", "dry_run", file_name(o.from), file_name(o.to))

Count(o) == Cardinality({i \in 1..Len(outcome) : outcome[i] = o})

\* C5: a failed rename adds one to the error count and to nothing else,
\* leaves the disk and the source in place and hands the loop the next
\* operation; the loop is left only after the last operation, with Ok(());
\* the counts and the skipped conflicts add up to the operations consumed.
C5_RenameFailure ==
    /\ [](Len(outcome) = idx
          /\ success_count + error_count + Count("conflict") = idx
          /\ error_count = Count("failed")
          /\ ((Planned /\ pc = "exited") =>
                 success_count + error_count + Count("conflict") = Len(operations)))
    /\ [][ /\ (Len(renames') > Len(renames) /\ ~renames'[Len(renames')].ok) =>
                 /\ error_count' = error_count + 1
                 /\ success_count' = success_count
                 /\ disk' = disk
                 /\ Exists(disk', op.from)
                 /\ pc' = "execute" /\ idx' = idx + 1
           /\ (pc = "execute" /\ pc' # "execute") =>
                 idx = Len(operations) /\ status' = "ok" ]_vars

\* a rename failed, the next operation was renamed and the run ended Ok
C5_Witness ==
    /\ pc = "exited" /\ status = "ok"
    /\ \E i, j \in 1..Len(outcome) :
          i < j /\ outcome[i] = "failed" /\ outcome[j] = "renamed"
    /\ Exists(disk, operations[1].from)

\* ---- C6 ---------------------------------------------------------------
\* the files categorize_files listed: the disk is as the run found it until
\* the first rename
Listed == get_files(args, disk0)
LowerExt(p) == IF extension(p) = None THEN None ELSE Some(to_lowercase(extension(p)[1]))
InSrtExt(p) == LowerExt(p) # None /\ Contains(renamer[1].srt_extensions, LowerExt(p)[1])
InVideoExt(p) == LowerExt(p) # None /\ Contains(renamer[1].video_extensions, LowerExt(p)[1])
SrtId(p) == CaptureGroup1(renamer[1].srt_regex, p.name)
VideoId(p) == CaptureGroup1(renamer[1].mkv_regex, p.name)
Entries(v, p) == {i \in 1..Len(v) : v[i].path = p}

\* C6: categorize_files puts a listed file in the subtitle list iff its
\* lowercased extension is a subtitle extension and the subtitle pattern
\* gives a first group on its name, in the video list iff its extension is
\* not a subtitle extension, is a video extension and the video pattern
\* gives a first group; each file at most once and in one list, with the
\* text of the first group as its identifier; no other file is in a list.
C6_Categorize ==
    Categorized =>
        /\ \A p \in Listed :
              /\ Entries(subtitles, p) # {} <=> (InSrtExt(p) /\ SrtId(p) # None)
              /\ Entries(videos, p) # {} <=>
                     (~InSrtExt(p) /\ InVideoExt(p) /\ VideoId(p) # None)
              /\ Cardinality(Entries(subtitles, p)) + Cardinality(Entries(videos, p)) <= 1
              /\ \A i \in Entries(subtitles, p) : subtitles[i].episode_id = SrtId(p)[1]
              /\ \A i \in Entries(videos, p) : videos[i].episode_id = VideoId(p)[1]
        /\ \A i \in 1..Len(subtitles) : subtitles[i].path \in Listed
        /\ \A i \in 1..Len(videos) : videos[i].path \in Listed

\* a listed file whose extension is in both lists, that the subtitle
\* pattern rejects and the video pattern accepts, is in neither list, next
\* to a classified subtitle and a classified video
C6_Witness ==
    /\ pc = "plan"
    /\ Len(subtitles) > 0 /\ Len(videos) > 0
    /\ \E p \in Listed :
          /\ InSrtExt(p) /\ InVideoExt(p)
          /\ SrtId(p) = None /\ VideoId(p) # None
          /\ Entries(subtitles, p) = {} /\ Entries(videos, p) = {}

\* ---- C7 ---------------------------------------------------------------
\* C7: every classified file has a non-empty episode_id and a lowercase
\* extension.
C7_NonEmptyId ==
    /\ \A i \in 1..Len(subtitles) :
          /\ subtitles[i].episode_id # <<>>
          /\ \A j \in 1..Len(subtitles[i].extension) : ~IsUpper(subtitles[i].extension[j])
    /\ \A i \in 1..Len(videos) :
          /\ videos[i].episode_id # <<>>
          /\ \A j \in 1..Len(videos[i].extension) : ~IsUpper(videos[i].extension[j])

\* ---- C8 ---------------------------------------------------------------
EffectiveSrt == IF args.srt_regex # None THEN args.srt_regex ELSE args.mkv_regex
EffectiveMkv == IF args.mkv_regex # None THEN args.mkv_regex ELSE args.srt_regex
BadConfiguration ==
    \/ args.srt_regex = None /\ args.mkv_regex = None
    \/ EffectiveSrt # None /\ EffectiveSrt[1] \notin ValidPatterns
    \/ EffectiveMkv # None /\ EffectiveMkv[1] \notin ValidPatterns
    \/ ~root_exists

\* C8: when both patterns are absent, an effective pattern does not
\* compile or the root directory does not exist, no renamer is built and
\* the process ends with an error from its first step: nothing is listed,
\* classified, planned or renamed and the disk is unchanged.
C8_ConfigurationFailure ==
    BadConfiguration =>
        /\ pc \in {"main", "exited"}
        /\ pc = "exited" => status \in {"exit1", "error"}
        /\ renamer = None
        /\ subtitles = <<>> /\ videos = <<>> /\ operations = <<>>
        /\ renames = <<>> /\ idx = 0
        /\ disk = disk0

\* only --mkv-regex is given and does not compile: the subtitle role falls
\* back to it, and the process has ended with an error over a directory
\* that holds files
C8_Witness ==
    /\ args.srt_regex = None /\ args.mkv_regex = Some(ReBad)
    /\ pc = "exited" /\ status = "error"
    /\ DOMAIN disk # {}

\* ---- C4 ---------------------------------------------------------------
\* the first invocation was not a dry run and carried out every rename it
\* planned; the second one has planned
SecondPlanAfterFullRun ==
    /\ prev # None
    /\ ~prev[1].dry_run
    /\ \A i \in 1..Len(prev[1].operations) : prev[1].outcome[i] = "renamed"
    /\ Planned

\* every identifier of the current and of the previous invocation is non-empty
IdsNonEmpty ==
    /\ \A i \in 1..Len(subtitles) : subtitles[i].episode_id # <<>>
    /\ \A i \in 1..Len(videos) : videos[i].episode_id # <<>>
    /\ prev # None =>
          /\ \A i \in 1..Len(prev[1].videos) : prev[1].videos[i].episode_id # <<>>
          /\ \A i \in 1..Len(prev[1].operations) :
                prev[1].operations[i].episode_id # <<>>

\* C4 as stated: after a run that carried out every planned rename, the
\* pipeline run again on the resulting directory with the same configuration
\* plans no operation (taken in its most favourable reading: the videos are
\* listed in the same order both times and no identifier is empty).
C4_Idempotent ==
    (SecondPlanAfterFullRun /\ videos = prev[1].videos /\ IdsNonEmpty) =>
        operations = <<>>

\* the second listing returns the videos in the order of the first, and
\* the subtitle pattern reads from each new name the identifier it read
\* from the old one, or none
SameIndexAndIds ==
    /\ videos = prev[1].videos
    /\ \A i \in 1..Len(prev[1].operations) :
          SrtId(prev[1].operations[i].to) \in
              {None, Some(prev[1].operations[i].episode_id)}

\* C4 amended: after a run that carried out every planned rename, the
\* pipeline run again plans no operation provided the videos are listed in
\* the same order and the subtitle pattern extracts from every renamed
\* file's new name the identifier it extracted from the old name, or none.
C4_IdempotentSameIds ==
    (SecondPlanAfterFullRun /\ SameIndexAndIds) => operations = <<>>

\* a renamed subtitle is classified again under its new name, matched to
\* the same video and planned nowhere
C4_Witness ==
    /\ SecondPlanAfterFullRun /\ SameIndexAndIds
    /\ Len(prev[1].operations) > 0
    /\ operations = <<>>
    /\ \E i \in 1..Len(subtitles) :
          /\ subtitles[i].path = prev[1].operations[1].to
          /\ subtitles[i].episode_id = prev[1].operations[1].episode_id
          /\ subtitles[i].episode_id # <<>>

\* ---- C10 --------------------------------------------------------------
\* C10: when a dry run is followed by a real run on the same directory that
\* plans the same operations and in which no rename call fails, the
\* operations the dry run printed are the operations the real run renamed,
\* and the success counts agree (no identifier being empty).
C10_DryRunPredicts ==
    ( /\ prev # None /\ prev[1].dry_run
      /\ pc = "exited" /\ status = "ok"
      /\ operations = prev[1].operations
      /\ Count("failed") = 0
      /\ IdsNonEmpty ) =>
        /\ {i \in 1..Len(operations) : prev[1].outcome[i] = "dry_run"} =
           {i \in 1..Len(operations) : outcome[i] = "renamed"}
        /\ prev[1].success_count = success_count

====
